---- MODULE Spec2Model ----
(***************************************************************************)
(* ESP32 I2C master driver of Espruino (targets/esp32/jshardwareI2c.c).    *)
(*                                                                         *)
(* The state is the per-device "initialised" flag kept by the interpreter, *)
(* the driver instances the platform holds per controller, the command     *)
(* links outstanding, and what the last API call did: its arguments (with  *)
(* the JshI2CInfo structure as jshI2CSetup left it), the platform calls it *)
(* made in order and the exception it raised.  The raw status codes        *)
(* (i2c_param_config, i2c_driver_install, i2c_master_cmd_begin) are inputs *)
(* chosen by the environment.                                              *)
(***************************************************************************)
EXTENDS Integers, Naturals, Sequences, FiniteSets, TLC

VARIABLES
  initialised,  \* jshIsDeviceInitialised(device), one flag per device
  installed,    \* driver instances the platform holds, per controller index
  links,        \* command links created and not yet deleted
  call,         \* the last API call and its arguments
  hw,           \* platform calls made by the last API call, in order
  exception     \* exception raised by the last API call, or NoException

vars == <<initialised, installed, links, call, hw, exception>>

----------------------------------------------------------------------------
(* Bounds of the model *)

MaxBytes == 2          \* longest write payload / largest read count

----------------------------------------------------------------------------
(* Program constants *)

ACK_CHECK_EN == 1
ACK_VAL == 0
NACK_VAL == 1
I2C_MASTER_WRITE == 0
I2C_MASTER_READ == 1
I2C_NUM_0 == 0
I2C_NUM_1 == 1
ESPR_I2C_COUNT == 2

Devices == {"EV_I2C1", "EV_I2C2", "EV_SPI1"}
Ports == {I2C_NUM_0, I2C_NUM_1}

\* esp_err_t values the platform calls may return
RawCodes == {"ESP_OK", "ESP_FAIL", "ESP_ERR_INVALID_ARG", "ESP_ERR_TIMEOUT",
             "ESP_ERR_INVALID_STATE"}
\* i2c_param_config either accepts the configuration or rejects its arguments
ParamCodes == {"ESP_OK", "ESP_ERR_INVALID_ARG"}

Addresses == {80, 200}                 \* unsigned char address
Pins == {"PIN_UNDEFINED", "D21"}
Bitrates == {100000}
Counts == -1 .. MaxBytes               \* int nBytes of a read

\* write payloads: the first n bytes of 16, 32, 48, ...
Payloads == {[i \in 1 .. n |-> 16 * i] : n \in 0 .. MaxBytes}

NoException == [caller |-> "-", msg |-> "-", code |-> "-"]
NoInfo == [pinSCL |-> "PIN_UNDEFINED", pinSDA |-> "PIN_UNDEFINED", bitrate |-> 0]

----------------------------------------------------------------------------
(* Helpers *)

\* bitwise OR of two naturals
RECURSIVE BitOr(_, _)
BitOr(a, b) ==
  IF a = 0 THEN b
  ELSE IF b = 0 THEN a
  ELSE (IF a % 2 = 1 \/ b % 2 = 1 THEN 1 ELSE 0) + 2 * BitOr(a \div 2, b \div 2)

\* address << 1 | rw, passed as the uint8_t data argument of i2c_master_write_byte
AddressByte(address, rw) == BitOr(address * 2, rw) % 256

\* jsExceptionHere(JSET_ERROR, msg) issued from `caller`
Raise(caller, msg) == [caller |-> caller, msg |-> msg, code |-> "-"]

\* variant: the timeout case is missing and a timeout counts as a success
checkError_TimeoutSilent(caller, ret) ==
  [ret |-> ret,
   raised |->
     CASE ret = "ESP_OK" -> NoException
       [] ret = "ESP_ERR_INVALID_ARG" -> Raise(caller, "Parameter error")
       [] ret = "ESP_FAIL" -> Raise(caller, "slave doesn't ACK the transfer")
       [] ret = "ESP_ERR_TIMEOUT" -> NoException
       [] OTHER -> [caller |-> caller, msg |-> "unknown error code", code |-> ret]]

\* checkError: ret is the value returned, raised the exception the switch raises
checkError(caller, ret) ==
  [ret |-> ret,
   raised |->
     CASE ret = "ESP_OK" -> NoException
       [] ret = "ESP_ERR_INVALID_ARG" -> Raise(caller, "Parameter error")
       [] ret = "ESP_FAIL" -> Raise(caller, "slave doesn't ACK the transfer")
       [] ret = "ESP_ERR_TIMEOUT" -> Raise(caller, "Operation timeout because the bus is busy")
       [] OTHER -> [caller |-> caller, msg |-> "unknown error code", code |-> ret]]

\* variant: the default case falls through to the first controller
getI2cFromDevice_DefaultFirst(device) ==
  CASE device = "EV_I2C1" -> I2C_NUM_0
    [] device = "EV_I2C2" /\ ESPR_I2C_COUNT > 1 -> I2C_NUM_1
    [] OTHER -> I2C_NUM_0

\* getI2cFromDevice: controller index of a device, -1 when unsupported
getI2cFromDevice(device) ==
  CASE device = "EV_I2C1" -> I2C_NUM_0
    [] device = "EV_I2C2" /\ ESPR_I2C_COUNT > 1 -> I2C_NUM_1
    [] OTHER -> -1

\* i2c_driver_delete(port): releases the controller's driver instance, if any
DriverDelete(h, port) ==
  [h EXCEPT ![port] = IF @ > 0 THEN @ - 1 ELSE 0]

\* i2c_driver_install(port, ...) returning err: one more instance on ESP_OK
DriverInstall(h, port, err) ==
  [h EXCEPT ![port] = IF err = "ESP_OK" THEN @ + 1 ELSE @]

----------------------------------------------------------------------------
(* Pin resolution (external lookup service) *)

\* jshGetPinFunctionFromDevice
jshGetPinFunctionFromDevice(device) ==
  CASE device = "EV_I2C1" -> "JSH_I2C1"
    [] device = "EV_I2C2" -> "JSH_I2C2"
    [] OTHER -> "JSH_NOTHING"

jshIsPinValid(pin) == pin # "PIN_UNDEFINED"

\* jshFindPinForFunction: the board's pin for a function and role
jshFindPinForFunction(funcType, role) ==
  CASE funcType = "JSH_I2C1" /\ role = "JSH_I2C_SCL" -> "I2C1_SCL"
    [] funcType = "JSH_I2C1" /\ role = "JSH_I2C_SDA" -> "I2C1_SDA"
    [] funcType = "JSH_I2C2" /\ role = "JSH_I2C_SCL" -> "I2C2_SCL"
    [] funcType = "JSH_I2C2" /\ role = "JSH_I2C_SDA" -> "I2C2_SDA"
    [] OTHER -> "PIN_UNDEFINED"

\* jshI2CSetup, pin resolution: unset pins of info are filled in from the board
ResolvePins(device, inf) ==
  LET funcType == jshGetPinFunctionFromDevice(device)
  IN [inf EXCEPT
        !.pinSCL = IF ~jshIsPinValid(@) THEN jshFindPinForFunction(funcType, "JSH_I2C_SCL") ELSE @,
        !.pinSDA = IF ~jshIsPinValid(@) THEN jshFindPinForFunction(funcType, "JSH_I2C_SDA") ELSE @]

\* jshI2CSetup, the i2c_config_t handed to i2c_param_config
MakeConf(inf) ==
  [mode |-> "I2C_MODE_MASTER",
   sda_io_num |-> <<"pinToESP32Pin", inf.pinSDA>>,
   sda_pullup_en |-> "GPIO_PULLUP_ENABLE",
   scl_io_num |-> <<"pinToESP32Pin", inf.pinSCL>>,
   scl_pullup_en |-> "GPIO_PULLUP_ENABLE",
   clk_speed |-> inf.bitrate]

----------------------------------------------------------------------------
(* Platform call records.  held is the number of driver instances the      *)
(* controller holds when the call is made, flag the device's initialised   *)
(* flag at that moment.                                                    *)

CallDriverDelete(port, held, flag) ==
  [call |-> "i2c_driver_delete", port |-> port, held |-> held, flag |-> flag]
CallParamConfig(port, conf, held, flag, ret) ==
  [call |-> "i2c_param_config", port |-> port, conf |-> conf, held |-> held, flag |-> flag, ret |-> ret]
CallDriverInstall(port, mode, held, flag, ret) ==
  [call |-> "i2c_driver_install", port |-> port, mode |-> mode, held |-> held, flag |-> flag, ret |-> ret]
CallLinkCreate == [call |-> "i2c_cmd_link_create"]
CallLinkDelete == [call |-> "i2c_cmd_link_delete"]
CallCmdBegin(port, ret) == [call |-> "i2c_master_cmd_begin", port |-> port, ret |-> ret]
StepStart == [call |-> "i2c_master_start"]
StepStop == [call |-> "i2c_master_stop"]
StepWriteByte(value, ack_en) == [call |-> "i2c_master_write_byte", data |-> value, ack_en |-> ack_en]
StepWrite(bytes, len, ack_en) == [call |-> "i2c_master_write", data |-> bytes, data_len |-> len, ack_en |-> ack_en]
StepRead(offset, len, ack) == [call |-> "i2c_master_read", offset |-> offset, data_len |-> len, ack |-> ack]
StepReadByte(offset, ack) == [call |-> "i2c_master_read_byte", offset |-> offset, ack |-> ack]

\* info is the JshI2CInfo passed to jshI2CSetup, infoOut the same structure on return
NoCall == [op |-> "none", device |-> "-", address |-> 0, nBytes |-> 0, data |-> << >>,
           sendStop |-> FALSE, info |-> NoInfo, infoOut |-> NoInfo]

----------------------------------------------------------------------------
(* State after construction: nothing initialised, no driver installed *)

Init ==
  /\ initialised = [d \in Devices |-> FALSE]
  /\ installed = [p \in Ports |-> 0]
  /\ links = 0
  /\ call = NoCall
  /\ hw = << >>
  /\ exception = NoException

----------------------------------------------------------------------------
(* I2CReset *)

\* one "if (jshIsDeviceInitialised(dev)) { i2c_driver_delete(port); set false }" block
ResetDevice(st, device, port) ==
  IF st.initialised[device]
  THEN [initialised |-> [st.initialised EXCEPT ![device] = FALSE],
        installed |-> DriverDelete(st.installed, port),
        hw |-> Append(st.hw, CallDriverDelete(port, st.installed[port], TRUE))]
  ELSE st

\* variant: only the first bus is torn down
ResetAll_FirstOnly(st) == ResetDevice(st, "EV_I2C1", I2C_NUM_0)

ResetAll(st) ==
  LET st1 == ResetDevice(st, "EV_I2C1", I2C_NUM_0)
  IN IF ESPR_I2C_COUNT > 1 THEN ResetDevice(st1, "EV_I2C2", I2C_NUM_1) ELSE st1

I2CReset ==
  LET st == ResetAll([initialised |-> initialised, installed |-> installed, hw |-> << >>])
  IN /\ initialised' = st.initialised
     /\ installed' = st.installed
     /\ hw' = st.hw
     /\ call' = [NoCall EXCEPT !.op = "I2CReset"]
     /\ exception' = NoException
     /\ UNCHANGED links

----------------------------------------------------------------------------
(* jshI2CSetup *)

\* variant: the driver of the first controller is deleted, whatever the device
SetupRelease_FirstPort(st, device, port) ==
  IF st.initialised[device]
  THEN [st EXCEPT !.installed = DriverDelete(st.installed, I2C_NUM_0),
                  !.hw = Append(st.hw, CallDriverDelete(I2C_NUM_0, st.installed[I2C_NUM_0], TRUE))]
  ELSE st

\* variant: the installed driver is not deleted before reprogramming
SetupRelease_NoDelete(st, device, port) == st

\* "if (jshIsDeviceInitialised(device)) i2c_driver_delete(port)"
SetupRelease(st, device, port) ==
  IF st.initialised[device]
  THEN [st EXCEPT !.installed = DriverDelete(st.installed, port),
                  !.hw = Append(st.hw, CallDriverDelete(port, st.installed[port], TRUE))]
  ELSE st

\* i2c_param_config(port, &conf) returning err
SetupParamConfig(st, device, port, inf, err) ==
  [st EXCEPT !.hw = Append(st.hw,
      CallParamConfig(port, MakeConf(inf), st.installed[port], st.initialised[device], err))]

\* variant: a failed install is not passed to checkError
SetupInstall_SilentFailure(st, device, port, err) ==
  [initialised |-> IF err = "ESP_OK" THEN [st.initialised EXCEPT ![device] = TRUE]
                   ELSE st.initialised,
   installed |-> DriverInstall(st.installed, port, err),
   hw |-> Append(st.hw,
      CallDriverInstall(port, "I2C_MODE_MASTER", st.installed[port], st.initialised[device], err)),
   exception |-> NoException]

\* variant: a successful install does not mark the device initialised
SetupInstall_NoMark(st, device, port, err) ==
  [initialised |-> st.initialised,
   installed |-> DriverInstall(st.installed, port, err),
   hw |-> Append(st.hw,
      CallDriverInstall(port, "I2C_MODE_MASTER", st.installed[port], st.initialised[device], err)),
   exception |-> IF err = "ESP_OK" THEN NoException ELSE checkError("jshI2CSetup", err).raised]

\* i2c_driver_install(port, conf.mode, 0, 0, 0) returning err, and what follows it
SetupInstall(st, device, port, err) ==
  [initialised |-> IF err = "ESP_OK" THEN [st.initialised EXCEPT ![device] = TRUE]
                   ELSE st.initialised,
   installed |-> DriverInstall(st.installed, port, err),
   hw |-> Append(st.hw,
      CallDriverInstall(port, "I2C_MODE_MASTER", st.installed[port], st.initialised[device], err)),
   exception |-> IF err = "ESP_OK" THEN NoException ELSE checkError("jshI2CSetup", err).raised]

jshI2CSetup(device, inf, perr, ierr) ==
  LET port == getI2cFromDevice(device)
      st0 == [initialised |-> initialised, installed |-> installed, hw |-> << >>,
              exception |-> NoException]
      resolved == ResolvePins(device, inf)
  IN /\ call' = [NoCall EXCEPT !.op = "jshI2CSetup", !.device = device, !.info = inf,
                               !.infoOut = IF port = -1 THEN inf ELSE resolved]
     /\ UNCHANGED links
     /\ IF port = -1
        THEN /\ exception' = Raise("jshI2CSetup", "Only I2C1 and I2C2 (if available on target) supported")
             /\ hw' = << >>
             /\ UNCHANGED <<initialised, installed>>
        ELSE LET st1 == SetupRelease(st0, device, port)
                 st2 == SetupParamConfig(st1, device, port, resolved, perr)
                 st3 == IF perr = "ESP_ERR_INVALID_ARG"
                        THEN [st2 EXCEPT !.exception = Raise("jshI2CSetup", "Invalid arguments")]
                        ELSE SetupInstall(st2, device, port, ierr)
             IN /\ initialised' = st3.initialised
                /\ installed' = st3.installed
                /\ hw' = st3.hw
                /\ exception' = st3.exception

----------------------------------------------------------------------------
(* jshI2CWrite and jshI2CRead *)

\* command links outstanding after the platform calls of `calls`
RECURSIVE LinksAfter(_, _)
LinksAfter(n, calls) ==
  IF calls = << >> THEN n
  ELSE LET c == Head(calls)
       IN LinksAfter(CASE c.call = "i2c_cmd_link_create" -> n + 1
                       [] c.call = "i2c_cmd_link_delete" /\ n > 0 -> n - 1
                       [] OTHER -> n,
                     Tail(calls))

\* driver instances held after the platform calls of `calls`
RECURSIVE DriversAfter(_, _)
DriversAfter(h, calls) ==
  IF calls = << >> THEN h
  ELSE LET c == Head(calls)
       IN DriversAfter(CASE c.call = "i2c_driver_delete" -> DriverDelete(h, c.port)
                         [] c.call = "i2c_driver_install" -> DriverInstall(h, c.port, c.ret)
                         [] OTHER -> h,
                       Tail(calls))

\* variant: Stop is appended whatever sendStop says
WriteSteps_AlwaysStop(address, data, nBytes, sendStop) ==
  <<StepStart,
    StepWriteByte(AddressByte(address, I2C_MASTER_WRITE), ACK_CHECK_EN),
    StepWrite(data, nBytes, ACK_CHECK_EN),
    StepStop>>

\* jshI2CWrite: the steps appended to the command link
WriteSteps(address, data, nBytes, sendStop) ==
  <<StepStart,
    StepWriteByte(AddressByte(address, I2C_MASTER_WRITE), ACK_CHECK_EN),
    StepWrite(data, nBytes, ACK_CHECK_EN)>>
  \o (IF sendStop THEN <<StepStop>> ELSE << >>)

\* variant: the final byte is acknowledged like the ones before it
ReadSteps_LastByteAcked(address, nBytes, sendStop) ==
  <<StepStart,
    StepWriteByte(AddressByte(address, I2C_MASTER_READ), ACK_CHECK_EN)>>
  \o (IF nBytes > 1 THEN <<StepRead(0, nBytes - 1, ACK_VAL)>> ELSE << >>)
  \o <<StepReadByte(nBytes - 1, ACK_VAL)>>
  \o (IF sendStop THEN <<StepStop>> ELSE << >>)

\* jshI2CRead: the steps appended to the command link (nBytes > 0)
ReadSteps(address, nBytes, sendStop) ==
  <<StepStart,
    StepWriteByte(AddressByte(address, I2C_MASTER_READ), ACK_CHECK_EN)>>
  \o (IF nBytes > 1 THEN <<StepRead(0, nBytes - 1, ACK_VAL)>> ELSE << >>)
  \o <<StepReadByte(nBytes - 1, NACK_VAL)>>
  \o (IF sendStop THEN <<StepStop>> ELSE << >>)

\* variant: the link is released only after a successful submission
Transaction_LeakOnError(port, steps, ret) ==
  <<CallLinkCreate>> \o steps \o <<CallCmdBegin(port, ret)>>
  \o (IF ret = "ESP_OK" THEN <<CallLinkDelete>> ELSE << >>)

\* variant: a failed submission is submitted a second time
Transaction_RetryOnError(port, steps, ret) ==
  <<CallLinkCreate>> \o steps \o <<CallCmdBegin(port, ret)>>
  \o (IF ret # "ESP_OK" THEN <<CallCmdBegin(port, ret)>> ELSE << >>)
  \o <<CallLinkDelete>>

\* variant: a failed submission deletes the controller's driver
Transaction_DeleteOnError(port, steps, ret) ==
  <<CallLinkCreate>> \o steps \o <<CallCmdBegin(port, ret), CallLinkDelete>>
  \o (IF ret # "ESP_OK" THEN <<CallDriverDelete(port, 1, TRUE)>> ELSE << >>)

\* i2c_cmd_link_create, the steps, i2c_master_cmd_begin returning ret, i2c_cmd_link_delete
Transaction(port, steps, ret) ==
  <<CallLinkCreate>> \o steps \o <<CallCmdBegin(port, ret), CallLinkDelete>>

jshI2CWrite(device, address, data, sendStop, ret) ==
  LET port == getI2cFromDevice(device)
      nBytes == Len(data)
  IN /\ call' = [NoCall EXCEPT !.op = "jshI2CWrite", !.device = device, !.address = address,
                               !.nBytes = nBytes, !.data = data, !.sendStop = sendStop]
     /\ UNCHANGED initialised
     /\ IF port = -1
        THEN /\ exception' = Raise("jshI2CWrite", "Only I2C1 and I2C2 supported")
             /\ hw' = << >>
             /\ UNCHANGED <<links, installed>>
        ELSE LET calls == Transaction(port, WriteSteps(address, data, nBytes, sendStop), ret)
             IN /\ hw' = calls
                /\ links' = LinksAfter(links, calls)
                /\ installed' = DriversAfter(installed, calls)
                /\ exception' = checkError("jshI2CWrite", ret).raised

\* variant: only a negative count returns early
ReadIsNoOp_OnlyNegative(nBytes) == nBytes < 0

\* jshI2CRead: "if (nBytes <= 0) return;"
ReadIsNoOp(nBytes) == nBytes <= 0

jshI2CRead(device, address, nBytes, sendStop, ret) ==
  LET port == getI2cFromDevice(device)
  IN /\ call' = [NoCall EXCEPT !.op = "jshI2CRead", !.device = device, !.address = address,
                               !.nBytes = nBytes, !.sendStop = sendStop]
     /\ UNCHANGED initialised
     /\ IF ReadIsNoOp(nBytes)
        THEN /\ exception' = NoException
             /\ hw' = << >>
             /\ UNCHANGED <<links, installed>>
        ELSE IF port = -1
        THEN /\ exception' = Raise("jshI2CRead", "Only I2C1 and I2C2 supported")
             /\ hw' = << >>
             /\ UNCHANGED <<links, installed>>
        ELSE LET calls == Transaction(port, ReadSteps(address, nBytes, sendStop), ret)
             IN /\ hw' = calls
                /\ links' = LinksAfter(links, calls)
                /\ installed' = DriversAfter(installed, calls)
                /\ exception' = checkError("jshI2CRead", ret).raised

----------------------------------------------------------------------------
(* Specification *)

Setup ==
  \E device \in Devices, scl \in Pins, sda \in Pins, bitrate \in Bitrates,
     perr \in ParamCodes, ierr \in RawCodes :
    jshI2CSetup(device, [pinSCL |-> scl, pinSDA |-> sda, bitrate |-> bitrate], perr, ierr)

Write ==
  \E device \in Devices, address \in Addresses, data \in Payloads,
     sendStop \in BOOLEAN, ret \in RawCodes :
    jshI2CWrite(device, address, data, sendStop, ret)

Read ==
  \E device \in Devices, address \in Addresses, nBytes \in Counts,
     sendStop \in BOOLEAN, ret \in RawCodes :
    jshI2CRead(device, address, nBytes, sendStop, ret)

Reset == I2CReset

Next == Setup \/ Write \/ Read \/ Reset

Spec == Init /\ [][Next]_vars

----------------------------------------------------------------------------
(* Vocabulary of the properties *)

Supported(device) == getI2cFromDevice(device) # -1
SupportedDevices == {d \in Devices : Supported(d)}
Held(device) == installed[getI2cFromDevice(device)]

StepNames == {"i2c_master_start", "i2c_master_write_byte", "i2c_master_write",
              "i2c_master_read", "i2c_master_read_byte", "i2c_master_stop"}
LinkNames == StepNames \cup {"i2c_cmd_link_create", "i2c_master_cmd_begin", "i2c_cmd_link_delete"}

IsStep(c) == c.call \in StepNames
IsLinkCall(c) == c.call \in LinkNames
Steps(calls) == SelectSeq(calls, IsStep)
LinkCalls(calls) == SelectSeq(calls, IsLinkCall)

\* the raw status of the submission among `calls`, "-" when nothing was submitted
SubmitStatus(calls) ==
  IF \E i \in 1 .. Len(calls) : calls[i].call = "i2c_master_cmd_begin"
  THEN calls[CHOOSE i \in 1 .. Len(calls) : calls[i].call = "i2c_master_cmd_begin"].ret
  ELSE "-"

IsTransfer(c) == c.op = "jshI2CWrite" \/ (c.op = "jshI2CRead" /\ c.nBytes > 0)

----------------------------------------------------------------------------
(* C1: in every reachable state, for each supported bus the initialised    *)
(* flag is true if and only if the bus's controller holds an installed     *)
(* driver.                                                                 *)
C1_FlagIffDriverHeld ==
  \A d \in SupportedDevices : initialised[d] <=> (Held(d) >= 1)

(* C2: a write, or a read with count > 0, on a supported bus that is not   *)
(* initialised raises an error and makes no call into the command-link     *)
(* service.                                                                *)
C2_UninitialisedRejected ==
  [][(IsTransfer(call') /\ Supported(call'.device) /\ ~initialised[call'.device])
       => (exception' # NoException /\ LinkCalls(hw') = << >>)]_vars

(* C3: whenever jshI2CSetup on a supported bus fails (at parameter         *)
(* programming or at driver install), the bus is uninitialised on return.  *)
C3_FailedSetupUninitialised ==
  (call.op = "jshI2CSetup" /\ Supported(call.device) /\ exception # NoException)
    => ~initialised[call.device]

(* C4: no controller ever holds more than one driver instance, and right   *)
(* after a successful jshI2CSetup the bus's controller holds exactly one,  *)
(* whether the bus was initialised before the call or not.                 *)
C4_AtMostOneDriver ==
  /\ \A p \in Ports : installed[p] <= 1
  /\ (call.op = "jshI2CSetup" /\ Supported(call.device) /\ exception = NoException)
       => Held(call.device) = 1

\* a successful jshI2CSetup on a bus that held a driver, which it released first
C4_Witness ==
  /\ call.op = "jshI2CSetup" /\ Supported(call.device) /\ exception = NoException
  /\ Len(hw) = 3 /\ hw[1].call = "i2c_driver_delete" /\ hw[1].held = 1
  /\ hw[3].call = "i2c_driver_install"
  /\ Held(call.device) = 1

(* C5: a read with count 0 makes no platform call at all (no link created, *)
(* no step, no submission), raises no error and leaves no link behind.     *)
C5_ReadZeroNoOp ==
  (call.op = "jshI2CRead" /\ call.nBytes = 0)
    => (hw = << >> /\ exception = NoException /\ links = 0)

\* a read of count 0 on an initialised bus, asking for a Stop
C5_Witness ==
  /\ call.op = "jshI2CRead" /\ call.nBytes = 0 /\ call.sendStop
  /\ Supported(call.device) /\ initialised[call.device] /\ Held(call.device) = 1

(* C6: for a read of count >= 1 on a supported bus the platform calls are  *)
(* link create, then exactly the steps Start, WriteByte(address<<1 | READ  *)
(* as a byte, ack checked), ReadBlock(count-1, ACK) iff count > 1, one     *)
(* ReadByte(NACK) into the last position, Stop iff sendStop; then the      *)
(* submission and the link's release.                                      *)
C6_ReadSteps ==
  (call.op = "jshI2CRead" /\ call.nBytes >= 1 /\ Supported(call.device)) =>
    LET n == call.nBytes
        expected ==
          <<[call |-> "i2c_master_start"],
            [call |-> "i2c_master_write_byte", data |-> (2 * call.address + 1) % 256, ack_en |-> 1]>>
          \o (IF n > 1
              THEN <<[call |-> "i2c_master_read", offset |-> 0, data_len |-> n - 1, ack |-> 0]>>
              ELSE << >>)
          \o <<[call |-> "i2c_master_read_byte", offset |-> n - 1, ack |-> 1]>>
          \o (IF call.sendStop THEN <<[call |-> "i2c_master_stop"]>> ELSE << >>)
    IN /\ Steps(hw) = expected
       /\ Len(hw) = Len(expected) + 3
       /\ hw[1].call = "i2c_cmd_link_create"
       /\ SubSeq(hw, 2, Len(hw) - 2) = expected
       /\ hw[Len(hw) - 1].call = "i2c_master_cmd_begin"
       /\ hw[Len(hw)].call = "i2c_cmd_link_delete"

\* a read of more than one byte without Stop
C6_Witness ==
  /\ call.op = "jshI2CRead" /\ call.nBytes > 1 /\ ~call.sendStop /\ Supported(call.device)
  /\ Len(Steps(hw)) = 4

(* C7: for a write on a supported bus the platform calls are link create,  *)
(* then exactly the steps Start, WriteByte(address<<1 | WRITE as a byte,   *)
(* ack checked), WriteBlock(bytes, ack checked), Stop iff sendStop; then   *)
(* the submission and the link's release.                                  *)
C7_WriteSteps ==
  (call.op = "jshI2CWrite" /\ Supported(call.device)) =>
    LET expected ==
          <<[call |-> "i2c_master_start"],
            [call |-> "i2c_master_write_byte", data |-> (2 * call.address) % 256, ack_en |-> 1],
            [call |-> "i2c_master_write", data |-> call.data, data_len |-> Len(call.data), ack_en |-> 1]>>
          \o (IF call.sendStop THEN <<[call |-> "i2c_master_stop"]>> ELSE << >>)
    IN /\ Steps(hw) = expected
       /\ Len(hw) = Len(expected) + 3
       /\ hw[1].call = "i2c_cmd_link_create"
       /\ SubSeq(hw, 2, Len(hw) - 2) = expected
       /\ hw[Len(hw) - 1].call = "i2c_master_cmd_begin"
       /\ hw[Len(hw)].call = "i2c_cmd_link_delete"

\* a write of two bytes without Stop
C7_Witness ==
  /\ call.op = "jshI2CWrite" /\ Len(call.data) = 2 /\ ~call.sendStop /\ Supported(call.device)
  /\ Len(Steps(hw)) = 3

(* C8: a write or read whose submission returns a non-OK raw status leaves *)
(* every bus's initialised flag and every controller's driver as they were *)
(* before the call.                                                        *)
C8_TransferErrorKeepsBuses ==
  [][(IsTransfer(call') /\ SubmitStatus(hw') \notin {"-", "ESP_OK"})
       => (initialised' = initialised /\ installed' = installed)]_vars

\* a write that timed out on a bus that is still initialised and still holds its driver
C8_Witness ==
  /\ call.op = "jshI2CWrite" /\ SubmitStatus(hw) = "ESP_ERR_TIMEOUT"
  /\ exception # NoException
  /\ initialised[call.device] /\ Held(call.device) = 1

(* C9: jshI2CSetup on a device other than the I2C buses compiled in (EV_I2C1*)
(* and EV_I2C2) raises an error and does nothing else: no platform call,   *)
(* the JshI2CInfo untouched, no flag, driver or link changed.              *)
C9_UnsupportedSetupNoEffect ==
  [][(call'.op = "jshI2CSetup" /\ call'.device \notin {"EV_I2C1", "EV_I2C2"})
       => /\ exception' # NoException
          /\ hw' = << >>
          /\ call'.infoOut = call'.info
          /\ initialised' = initialised
          /\ installed' = installed
          /\ links' = links]_vars

\* jshI2CSetup on an unsupported device with unset pins, while a bus is initialised
C9_Witness ==
  /\ call.op = "jshI2CSetup" /\ call.device = "EV_SPI1"
  /\ call.info.pinSCL = "PIN_UNDEFINED" /\ call.info.pinSDA = "PIN_UNDEFINED"
  /\ exception # NoException
  /\ \E d \in SupportedDevices : initialised[d] /\ Held(d) = 1

(* C10: after I2CReset every supported bus is uninitialised and no         *)
(* controller holds a driver.                                              *)
C10_ResetReleasesAll ==
  call.op = "I2CReset" =>
    /\ \A d \in SupportedDevices : ~initialised[d]
    /\ \A p \in Ports : installed[p] = 0

\* an I2CReset that tore down both buses
C10_Witness ==
  /\ call.op = "I2CReset"
  /\ Len(hw) = 2 /\ hw[1].port = I2C_NUM_0 /\ hw[2].port = I2C_NUM_1
  /\ hw[1].held = 1 /\ hw[2].held = 1

(* C11: checkError is total on the raw status codes: ESP_OK raises nothing, *)
(* ESP_ERR_INVALID_ARG raises the parameter error, ESP_FAIL the slave-NACK *)
(* error, ESP_ERR_TIMEOUT the timeout error and any other code the unknown *)
(* error carrying that code; it returns the code it was given and changes  *)
(* no flag and no driver.                                                  *)
C11_ClassifierTotal ==
  [][(IsTransfer(call') /\ SubmitStatus(hw') # "-") =>
       LET r == SubmitStatus(hw')
           who == call'.op
       IN /\ exception' =
               (CASE r = "ESP_OK" -> [caller |-> "-", msg |-> "-", code |-> "-"]
                  [] r = "ESP_ERR_INVALID_ARG" ->
                       [caller |-> who, msg |-> "Parameter error", code |-> "-"]
                  [] r = "ESP_FAIL" ->
                       [caller |-> who, msg |-> "slave doesn't ACK the transfer", code |-> "-"]
                  [] r = "ESP_ERR_TIMEOUT" ->
                       [caller |-> who, msg |-> "Operation timeout because the bus is busy", code |-> "-"]
                  [] OTHER -> [caller |-> who, msg |-> "unknown error code", code |-> r])
          /\ checkError(who, r).ret = r
          /\ initialised' = initialised
          /\ installed' = installed]_vars

\* a read whose submission returned a code outside the switch: the unknown error carries it
C11_Witness ==
  /\ call.op = "jshI2CRead" /\ SubmitStatus(hw) = "ESP_ERR_INVALID_STATE"
  /\ exception.msg = "unknown error code" /\ exception.code = "ESP_ERR_INVALID_STATE"

C13_SetupSuccessMarks ==
  (/\ call.op = "jshI2CSetup" /\ call.device \in {"EV_I2C1", "EV_I2C2"}
   /\ Len(hw) >= 2
   /\ hw[Len(hw) - 1].call = "i2c_param_config" /\ hw[Len(hw) - 1].ret # "ESP_ERR_INVALID_ARG"
   /\ hw[Len(hw)].call = "i2c_driver_install" /\ hw[Len(hw)].ret = "ESP_OK")
    => /\ initialised[call.device]
       /\ installed[IF call.device = "EV_I2C1" THEN 0 ELSE 1] = 1
       /\ exception = NoException

\* a first successful jshI2CSetup of the second bus
C13_Witness ==
  /\ call.op = "jshI2CSetup" /\ call.device = "EV_I2C2"
  /\ Len(hw) = 2 /\ hw[2].call = "i2c_driver_install" /\ hw[2].ret = "ESP_OK"
  /\ hw[2].flag = FALSE /\ hw[2].held = 0
  /\ initialised["EV_I2C2"] /\ installed[1] = 1

(* C14: getI2cFromDevice is injective on the supported buses and gives -1  *)
(* for every other device: EV_I2C1 and EV_I2C2 get distinct controllers,   *)
(* and every platform call of a call on a bus names that bus's controller  *)
(* and no other.                                                           *)
C14_DeviceMapInjective ==
  /\ \A d1, d2 \in {"EV_I2C1", "EV_I2C2"} :
       /\ getI2cFromDevice(d1) \in Ports
       /\ (d1 # d2 => getI2cFromDevice(d1) # getI2cFromDevice(d2))
  /\ \A d \in Devices \ {"EV_I2C1", "EV_I2C2"} : getI2cFromDevice(d) = -1
  /\ (call.op \in {"jshI2CSetup", "jshI2CWrite", "jshI2CRead"}) =>
       \A i \in 1 .. Len(hw) :
         hw[i].call \in {"i2c_driver_delete", "i2c_param_config", "i2c_driver_install",
                         "i2c_master_cmd_begin"}
           => /\ call.device \in {"EV_I2C1", "EV_I2C2"}
              /\ hw[i].port = (IF call.device = "EV_I2C1" THEN 0 ELSE 1)

\* both buses hold a driver, each on its own controller, the last call being on the second
C14_Witness ==
  /\ initialised["EV_I2C1"] /\ initialised["EV_I2C2"]
  /\ installed[0] = 1 /\ installed[1] = 1
  /\ call.op = "jshI2CWrite" /\ call.device = "EV_I2C2"
  /\ SubmitStatus(hw) = "ESP_OK" /\ hw[Len(hw) - 1].port = 1

(* C15: when jshI2CSetup runs on an initialised bus, the driver is released *)
(* and the bus marked uninitialised before parameter programming and       *)
(* driver install: at neither of these calls is the bus flagged            *)
(* initialised while its controller holds no driver.                       *)
C15_TeardownBeforeReprogramming ==
  call.op = "jshI2CSetup" =>
    \A i \in 1 .. Len(hw) :
      hw[i].call \in {"i2c_param_config", "i2c_driver_install"}
        => ~(hw[i].flag /\ hw[i].held = 0)

(* C16: every jshI2CWrite / jshI2CRead that creates a command link deletes *)
(* it exactly once, after the submission and whatever status it returned,  *)
(* so no link is outstanding after any call.                               *)
C16_LinkReleased ==
  /\ links = 0
  /\ LET created == {i \in 1 .. Len(hw) : hw[i].call = "i2c_cmd_link_create"}
         deleted == {i \in 1 .. Len(hw) : hw[i].call = "i2c_cmd_link_delete"}
     IN /\ Cardinality(created) = Cardinality(deleted)
        /\ Cardinality(created) <= 1
        /\ (IsTransfer(call) /\ call.device \in {"EV_I2C1", "EV_I2C2"})
             => /\ created = {1}
                /\ deleted = {Len(hw)}
                /\ hw[Len(hw) - 1].call = "i2c_master_cmd_begin"

\* a read that timed out: its link was created and is gone
C16_Witness ==
  /\ call.op = "jshI2CRead" /\ SubmitStatus(hw) = "ESP_ERR_TIMEOUT"
  /\ hw[1].call = "i2c_cmd_link_create" /\ hw[Len(hw)].call = "i2c_cmd_link_delete"
  /\ links = 0

(* C17: each jshI2CWrite / jshI2CRead submits at most once: exactly once   *)
(* when a link was created, never a second time after a non-OK status; the *)
(* submission comes after every step and before the link's release, and    *)
(* the status it returned is the one classified.                           *)
C17_SingleSubmission ==
  LET submitted == {i \in 1 .. Len(hw) : hw[i].call = "i2c_master_cmd_begin"}
      created == {i \in 1 .. Len(hw) : hw[i].call = "i2c_cmd_link_create"}
  IN /\ Cardinality(submitted) <= 1
     /\ Cardinality(submitted) = Cardinality(created)
     /\ \A k \in submitted :
          /\ \A i \in 1 .. Len(hw) : IsStep(hw[i]) => i < k
          /\ \A i \in 1 .. Len(hw) : hw[i].call = "i2c_cmd_link_delete" => k < i
          /\ \A i \in created : i < k
          /\ (exception = NoException) <=> (hw[k].ret = "ESP_OK")

\* a write the slave did not acknowledge: one submission, not repeated
C17_Witness ==
  /\ call.op = "jshI2CWrite" /\ call.sendStop
  /\ Len(hw) = 7 /\ hw[6].call = "i2c_master_cmd_begin" /\ hw[6].ret = "ESP_FAIL"
  /\ exception.msg = "slave doesn't ACK the transfer"

(* C18: i2c_driver_delete is only ever called, by jshI2CSetup or by        *)
(* I2CReset, on a controller that holds an installed driver.               *)
C18_DeleteOnlyInstalled ==
  \A i \in 1 .. Len(hw) : hw[i].call = "i2c_driver_delete" => hw[i].held >= 1

(* C19: on a device that maps to no controller, a write, or a read with    *)
(* count > 0, raises an error and makes no platform call; a read with      *)
(* count <= 0 on such a device returns with no error and no platform call. *)
C19_UnsupportedTransfer ==
  (call.op \in {"jshI2CWrite", "jshI2CRead"} /\ call.device \notin {"EV_I2C1", "EV_I2C2"})
    => /\ hw = << >>
       /\ links = 0
       /\ (IsTransfer(call) => exception.msg = "Only I2C1 and I2C2 supported"
                                /\ exception.caller = call.op)
       /\ (~IsTransfer(call) => exception = NoException)

\* a read of the largest count on the unsupported device was refused
C19_Witness ==
  /\ call.op = "jshI2CRead" /\ call.device = "EV_SPI1" /\ call.nBytes = MaxBytes
  /\ exception.caller = "jshI2CRead" /\ hw = << >>

(* C20: jshI2CSetup, jshI2CWrite and jshI2CRead leave the initialised flag *)
(* of every device other than theirs, and the driver of every controller   *)
(* other than theirs, unchanged.                                           *)
C20_OtherBusesUntouched ==
  [][(call'.op \in {"jshI2CSetup", "jshI2CWrite", "jshI2CRead"}) =>
       /\ \A d \in Devices \ {call'.device} : initialised'[d] = initialised[d]
       /\ \A p \in Ports :
            p # (CASE call'.device = "EV_I2C1" -> 0 [] call'.device = "EV_I2C2" -> 1 [] OTHER -> -1)
              => installed'[p] = installed[p]]_vars

\* the second bus was reconfigured while the first stays initialised with its driver
C20_Witness ==
  /\ call.op = "jshI2CSetup" /\ call.device = "EV_I2C2"
  /\ Len(hw) = 3 /\ hw[1].call = "i2c_driver_delete" /\ hw[1].held = 1
  /\ initialised["EV_I2C1"] /\ installed[0] = 1

====
